---- MODULE Spec2Model ----
(***************************************************************************)
(* AsyncServo (EEZYbotARM_MK2/AsyncServo.h): a servo that is moved one     *)
(* microsecond of pulse width at a time by update(), polled from loop().   *)
(*                                                                         *)
(* Integer semantics are those of the AVR Arduino core the sketch is built *)
(* for: int is 16 bits, so uint16_t operands are NOT promoted to a wider   *)
(* signed type, the abs() macro is the identity on them, and a comparison  *)
(* of an int16_t with a uint16_t is done in uint16_t.  long is 32 bits.    *)
(***************************************************************************)
EXTENDS Integers, Naturals, Sequences, FiniteSets, TLC

(***************************************************************************)
(* Bounds of the exploration.                                              *)
(***************************************************************************)
\* the millis() counter wraps at 2^32; the model keeps the wrap but on a
\* short counter so that overflow is reached
MillisMod == 11
\* update() is polled at most MaxDelta ms after the previous poll
MaxDelta == 2
\* startInterval is never assigned: its value is whatever the storage held;
\* the model draws it from {0, minInterval + 1, MaxStartInterval}
MaxStartInterval == 7
\* ramps are explored on calibrations whose pulse range is at most MaxRange
MaxRange == 18

(***************************************************************************)
(* Fixed-width arithmetic.                                                 *)
(***************************************************************************)
ToU8(x) == x % 256

ToU16(x) == x % 65536

ToI16(x) == LET u == x % 65536 IN IF u >= 32768 THEN u - 65536 ELSE u

\* C division truncates toward zero (divisor positive here)
TruncDiv(a, b) == IF a >= 0 THEN a \div b ELSE -((-a) \div b)

\* Arduino: #define constrain(amt,low,high) ((amt)<(low)?(low):((amt)>(high)?(high):(amt)))
constrain(amt, low, high) == IF amt < low THEN low ELSE IF amt > high THEN high ELSE amt

\* map() with the output offset forgotten
mapNoOffset(x, in_min, in_max, out_min, out_max) ==
    TruncDiv((x - in_min) * (out_max - out_min), in_max - in_min)

\* Arduino: long map(long x, long in_min, long in_max, long out_min, long out_max)
map(x, in_min, in_max, out_min, out_max) ==
    TruncDiv((x - in_min) * (out_max - out_min), in_max - in_min) + out_min

\* Arduino: #define abs(x) ((x)>0?(x):-(x)), applied to a uint16_t difference:
\* the operand is unsigned, so the negation branch is taken only for 0
absU16(x) == IF ToU16(x) > 0 THEN ToU16(x) ELSE ToU16(-ToU16(x))

(***************************************************************************)
(* Inputs.                                                                 *)
(***************************************************************************)
\* arguments of init(pin, min, max, minB, maxB, home)
Calibrations ==
    { [min |-> 2,    max |-> 20,   minB |-> 1, maxB |-> 2,     home |-> 1],
      [min |-> 3,    max |-> 13,   minB |-> 0, maxB |-> 3,     home |-> 2],
      [min |-> 1000, max |-> 2000, minB |-> 0, maxB |-> 180,   home |-> 1500],
      [min |-> 1000, max |-> 2000, minB |-> 0, maxB |-> 180,   home |-> 90],
      [min |-> 1000, max |-> 2000, minB |-> 0, maxB |-> 32768, home |-> 16384] }

\* angles (brads) passed to setTarget
Angles == {0, 3, 180, 40000}

\* durations (ms) passed to setTarget
Durations == {500}

Deltas == 0 .. MaxDelta

minInterval == 5

StartIntervals == {0, minInterval + 1, MaxStartInterval}

NoPulse == -1

NoReturn == -1

VARIABLES
    cal,             \* the arguments init() was called with
    minBr, maxBr, minMS, maxMS, homeMS, rampUp, rampDown,
    target, current, startAngle,
    startInterval, interval,
    previousMillis,
    now,             \* value of the millis() counter
    servoUs,         \* pulse width last passed to Servo::writeMicroseconds
    writes,          \* number of writeMicroseconds calls made by the last call
    ret,             \* value returned by the last setTarget()
    homed,           \* home() has been called
    targeted,        \* "never", or whether the last setTarget() came before/after home()
    sinceStep        \* ms really elapsed since previousMillis was set (since boot
                     \* at first), counted up to one full period of the counter

config == <<cal, minBr, maxBr, minMS, maxMS, homeMS, rampUp, rampDown, startInterval>>

vars == <<cal, minBr, maxBr, minMS, maxMS, homeMS, rampUp, rampDown,
          target, current, startAngle, startInterval, interval,
          previousMillis, now, servoUs, writes, ret, homed, targeted, sinceStep>>

(***************************************************************************)
(* Construction followed by init().                                        *)
(***************************************************************************)
InitServo(c) ==
    /\ cal = c
    /\ minBr = c.minB
    /\ maxBr = c.maxB
    /\ minMS = c.min
    /\ maxMS = c.max
    /\ rampUp = ToU8(ToU16(c.max - c.min) \div 3)
    /\ rampDown = ToU8(ToU16(c.max - c.min) \div 9)
    /\ homeMS = ToU16(map(constrain(c.home, c.minB, c.maxB), c.minB, c.maxB, c.min, c.max))
    /\ target = 0
    /\ current = 0
    /\ startAngle = 0
    /\ previousMillis = 0
    /\ startInterval \in StartIntervals
    /\ interval \in StartIntervals
    /\ now = 0
    /\ servoUs = NoPulse
    /\ writes = 0
    /\ ret = NoReturn
    /\ homed = FALSE
    /\ targeted = "never"
    /\ sinceStep = 0

Init == \E c \in Calibrations : InitServo(c)

(***************************************************************************)
(* home()                                                                  *)
(***************************************************************************)
\* home() that moves the servo but leaves the old target pending
HomeKeepTarget ==
    /\ servoUs' = homeMS
    /\ writes' = 1
    /\ current' = homeMS
    /\ homed' = TRUE
    /\ UNCHANGED <<config, target, startAngle, interval, previousMillis, now, ret, targeted, sinceStep>>

Home ==
    /\ servoUs' = homeMS
    /\ writes' = 1
    /\ current' = homeMS
    /\ target' = homeMS
    /\ homed' = TRUE
    /\ UNCHANGED <<config, startAngle, interval, previousMillis, now, ret, targeted, sinceStep>>

\* getTarget() that returns the stored pulse width unconverted
getTargetPulse == target

(***************************************************************************)
(* getTarget()                                                             *)
(***************************************************************************)
getTarget == ToU16(map(target, minMS, maxMS, minBr, maxBr))

(***************************************************************************)
(* setTarget(target, duration)                                             *)
(***************************************************************************)
\* lines 73-77: the value stored in this->target
resolve(angle) ==
    LET value1 == ToI16(constrain(angle, minBr, maxBr))
        value2 == ToI16(map(value1, minBr, maxBr, minMS, maxMS))
    IN  constrain(ToU16(value2), minMS, maxMS)

\* setTarget() that snapshots the start position only when the servo is idle
SetTargetKeepStart(angle, duration) ==
    /\ target' = resolve(angle)
    /\ startAngle' = IF current = target THEN current ELSE startAngle
    /\ interval' = startInterval
    /\ ret' = target'
    /\ writes' = 0
    /\ targeted' = IF homed THEN "afterHome" ELSE "beforeHome"
    /\ UNCHANGED <<config, current, previousMillis, now, servoUs, homed, sinceStep>>

\* setTarget() that also commands the servo straight to the new target
SetTargetJump(angle, duration) ==
    /\ target' = resolve(angle)
    /\ startAngle' = current
    /\ interval' = startInterval
    /\ ret' = target'
    /\ current' = target'
    /\ servoUs' = target'
    /\ writes' = 1
    /\ targeted' = IF homed THEN "afterHome" ELSE "beforeHome"
    /\ UNCHANGED <<config, previousMillis, now, homed, sinceStep>>

SetTarget(angle, duration) ==
    /\ target' = resolve(angle)
    /\ startAngle' = current
    /\ interval' = startInterval
    /\ ret' = target'
    /\ writes' = 0
    /\ targeted' = IF homed THEN "afterHome" ELSE "beforeHome"
    /\ UNCHANGED <<config, current, previousMillis, now, servoUs, homed, sinceStep>>

(***************************************************************************)
(* update(), called d ms after the previous poll                           *)
(***************************************************************************)
\* d more ms have passed without a step
later(d) == IF sinceStep + d < MillisMod THEN sinceStep + d ELSE MillisMod

\* the subtraction done in a signed type wider than the counter
elapsedSigned(currentMillis) == currentMillis - previousMillis

\* line 101: uint32_t subtraction
elapsed(currentMillis) == (currentMillis - previousMillis) % MillisMod

\* line 105: int16_t remaining = abs(current - target)
remainingOf(cur, tgt) == ToI16(absU16(cur - tgt))

\* the ramp-up trigger taken from the distance travelled since startAngle
nextIntervalByTravelled(remaining) ==
    IF remaining < rampDown
    THEN (IF interval < startInterval THEN ToU8(interval + 1) ELSE interval)
    ELSE IF ToI16(absU16(startAngle - current)) < rampUp
         THEN (IF interval > minInterval THEN ToU8(interval - 1) ELSE interval)
         ELSE interval

\* the ramp-down branch without its increment
nextIntervalNoRampDown(remaining) ==
    IF remaining < rampDown
    THEN interval
    ELSE IF remaining > rampUp
         THEN (IF interval > minInterval THEN ToU8(interval - 1) ELSE interval)
         ELSE interval

\* lines 107-118
nextInterval(remaining) ==
    IF remaining < rampDown
    THEN (IF interval < startInterval THEN ToU8(interval + 1) ELSE interval)
    ELSE IF remaining > rampUp
         THEN (IF interval > minInterval THEN ToU8(interval - 1) ELSE interval)
         ELSE interval

\* the step taken away from the target
nextCurrentAway ==
    IF target < current THEN ToU16(current + 1)
    ELSE IF target > current THEN ToU16(current - 1)
    ELSE current

\* a step of two units
nextCurrentDouble ==
    IF target < current THEN ToU16(current - 2)
    ELSE IF target > current THEN ToU16(current + 2)
    ELSE current

\* lines 120-127
nextCurrent ==
    IF target < current THEN ToU16(current - 1)
    ELSE IF target > current THEN ToU16(current + 1)
    ELSE current

\* update() without the early return of lines 94-95
UpdateNoIdleCheck(d) ==
    /\ now' = (now + d) % MillisMod
    /\ IF elapsed(now') > interval
       THEN /\ maxMS - minMS <= MaxRange
            /\ previousMillis' = now'
            /\ interval' = nextInterval(remainingOf(current, target))
            /\ current' = nextCurrent
            /\ servoUs' = current'
            /\ writes' = 1
            /\ sinceStep' = 0
       ELSE /\ writes' = 0
            /\ sinceStep' = later(d)
            /\ UNCHANGED <<current, interval, previousMillis, servoUs>>
    /\ UNCHANGED <<config, target, startAngle, ret, homed, targeted>>

\* update() with the gate test written >= instead of >
UpdateGateInclusive(d) ==
    /\ now' = (now + d) % MillisMod
    /\ IF current = target
       THEN /\ writes' = 0
            /\ sinceStep' = later(d)
            /\ UNCHANGED <<current, interval, previousMillis, servoUs>>
       ELSE IF elapsed(now') >= interval
            THEN /\ maxMS - minMS <= MaxRange
                 /\ previousMillis' = now'
                 /\ interval' = nextInterval(remainingOf(current, target))
                 /\ current' = nextCurrent
                 /\ servoUs' = current'
                 /\ writes' = 1
                 /\ sinceStep' = 0
            ELSE /\ writes' = 0
                 /\ sinceStep' = later(d)
                 /\ UNCHANGED <<current, interval, previousMillis, servoUs>>
    /\ UNCHANGED <<config, target, startAngle, ret, homed, targeted>>

\* update() that writes the servo before it moves current
UpdateWriteStale(d) ==
    /\ now' = (now + d) % MillisMod
    /\ IF current = target
       THEN /\ writes' = 0
            /\ sinceStep' = later(d)
            /\ UNCHANGED <<current, interval, previousMillis, servoUs>>
       ELSE IF elapsed(now') > interval
            THEN /\ maxMS - minMS <= MaxRange
                 /\ previousMillis' = now'
                 /\ interval' = nextInterval(remainingOf(current, target))
                 /\ current' = nextCurrent
                 /\ servoUs' = current
                 /\ writes' = 1
                 /\ sinceStep' = 0
            ELSE /\ writes' = 0
                 /\ sinceStep' = later(d)
                 /\ UNCHANGED <<current, interval, previousMillis, servoUs>>
    /\ UNCHANGED <<config, target, startAngle, ret, homed, targeted>>

Update(d) ==
    /\ now' = (now + d) % MillisMod
    /\ IF current = target
       THEN /\ writes' = 0
            /\ sinceStep' = later(d)
            /\ UNCHANGED <<current, interval, previousMillis, servoUs>>
       ELSE IF elapsed(now') > interval
            THEN /\ maxMS - minMS <= MaxRange
                 /\ previousMillis' = now'
                 /\ interval' = nextInterval(remainingOf(current, target))
                 /\ current' = nextCurrent
                 /\ servoUs' = current'
                 /\ writes' = 1
                 /\ sinceStep' = 0
            ELSE /\ writes' = 0
                 /\ sinceStep' = later(d)
                 /\ UNCHANGED <<current, interval, previousMillis, servoUs>>
    /\ UNCHANGED <<config, target, startAngle, ret, homed, targeted>>

SetTargetStep == \E a \in Angles, t \in Durations : SetTarget(a, t)

UpdateStep == \E d \in Deltas : Update(d)

\* update() polled at strictly advancing timestamps
UpdateAdvancing == \E d \in Deltas \ {0} : Update(d)

Next == Home \/ SetTargetStep \/ UpdateStep

Spec == Init /\ [][Next]_vars

\* the same machine on the calibrations whose ramps are explored in full,
\* with loop() polling update() forever at advancing timestamps
LiveInit == \E c \in Calibrations : c.max - c.min <= MaxRange /\ InitServo(c)

LiveSpec == LiveInit /\ [][Next]_vars /\ WF_vars(UpdateAdvancing)

(***************************************************************************)
(* Properties.                                                             *)
(***************************************************************************)
InRange(p) == minMS <= p /\ p <= maxMS

Dist(a, b) == IF a >= b THEN a - b ELSE b - a

ExampleCalPulseHome == [min |-> 1000, max |-> 2000, minB |-> 0, maxB |-> 180, home |-> 1500]

ExampleCalAngleHome == [min |-> 1000, max |-> 2000, minB |-> 0, maxB |-> 180, home |-> 90]

\* C1 (as stated): current, target and startAngle lie within [minMS, maxMS]
\* in every state after init(), also before the first home().
C1_PulseRangeAlways == InRange(current) /\ InRange(target) /\ InRange(startAngle)

\* C1 (amended): once home() has been called, current and target lie within
\* [minMS, maxMS] in every state, and so does startAngle once a setTarget()
\* has been issued after home().
C1_PulseRangeAfterHome ==
    /\ homed => InRange(current) /\ InRange(target)
    /\ targeted = "afterHome" => InRange(startAngle)

C1_Witness ==
    /\ homed /\ targeted = "afterHome"
    /\ current # target /\ current # startAngle /\ writes = 1

\* C2: once setTarget() has set the step interval,
\* minInterval <= interval <= startInterval, whatever startInterval is.
C2_IntervalBounds ==
    targeted # "never" => minInterval <= interval /\ interval <= startInterval

\* C3: an update() that passes the interval gate while current # target
\* moves current exactly one unit toward target; no update() moves current
\* by more than one unit, and current never passes beyond target.
C3_MonotoneConvergence ==
    [][UpdateStep =>
        /\ (current # target /\ elapsed(now') > interval) =>
              /\ Dist(current', target) = Dist(current, target) - 1
              /\ Dist(current', current) = 1
        /\ Dist(current', current) <= 1
        /\ current <= target => current' <= target
        /\ current >= target => current' >= target]_vars

C3_Witness ==
    /\ targeted # "never" /\ writes = 1 /\ servoUs = current
    /\ Dist(current, startAngle) >= 2 /\ current # target

\* C4: if from some point on only update() is called, at strictly advancing
\* timestamps, current eventually equals target and stays equal to it.
C4_EventualArrival == <>[][UpdateStep]_vars => <>[](current = target)

C4_Witness ==
    /\ homed /\ targeted = "afterHome"
    /\ current = target /\ current # startAngle /\ writes = 1 /\ servoUs = target

\* C5: update() in a state with current = target changes none of current,
\* interval, previousMillis, target, startAngle and writes nothing.
C5_IdleFixedPoint ==
    [][(UpdateStep /\ current = target) =>
        /\ UNCHANGED <<current, interval, previousMillis, target, startAngle, servoUs>>
        /\ writes' = 0]_vars

C5_Witness ==
    /\ homed /\ targeted = "afterHome" /\ current = target /\ current # startAngle
    /\ writes = 0 /\ elapsed(now) > interval

\* C6: setTarget() stores and returns minMS for every angle below minBr and
\* maxMS for every angle above maxBr; the returned value is the stored
\* target and lies within [minMS, maxMS].
C6_Clamping ==
    [][\A a \in Angles, t \in Durations : SetTarget(a, t) =>
        /\ a < minBr => target' = minMS
        /\ a > maxBr => target' = maxMS
        /\ ret' = target'
        /\ InRange(ret')]_vars

\* C7: setTarget() in the middle of a ramp replaces target, snapshots the
\* in-flight current into startAngle and resets interval to startInterval;
\* update() steps after it move current toward the new target only.
C7_Redirect ==
    [][/\ \A a \in Angles, t \in Durations :
            (SetTarget(a, t) /\ targeted # "never" /\ current # target) =>
                /\ target' = resolve(a) /\ ret' = target'
                /\ startAngle' = current /\ startAngle' = current'
                /\ interval' = startInterval
       /\ UpdateStep => target' = target /\ Dist(current', target) <= Dist(current, target)]_vars

C7_Witness ==
    /\ homed /\ targeted = "afterHome" /\ writes = 0
    /\ current # target /\ startAngle = current /\ current # homeMS
    /\ interval = startInterval /\ servoUs = current

\* C8 (as stated): after init(1000, 2000, home 1500, angles 0..180), home()
\* leaves current = 1500 and a following setTarget(180, 500) stores and
\* returns 2000.
C8_ExampleAsStated ==
    [][cal = ExampleCalPulseHome =>
        /\ Home => current' = 1500
        /\ (homed /\ SetTarget(180, 500)) => target' = 2000 /\ ret' = 2000]_vars

\* C8 (amended): the home argument of init() is an angle.  With home angle
\* 90 home() leaves current = 1500 (with home argument 1500, clamped to the
\* angle 180, it leaves current = 2000), and a following setTarget(180, 500)
\* stores and returns 2000.
C8_ExampleHomeAngle ==
    [][/\ (cal = ExampleCalAngleHome /\ Home) => current' = 1500
       /\ (cal = ExampleCalPulseHome /\ Home) => current' = 2000
       /\ (cal \in {ExampleCalAngleHome, ExampleCalPulseHome} /\ homed /\ SetTarget(180, 500)) =>
              target' = 2000 /\ ret' = 2000]_vars

C8_Witness ==
    /\ cal = ExampleCalAngleHome /\ homed /\ targeted = "afterHome"
    /\ current = 1500 /\ target = 2000 /\ ret = 2000

\* C9: homeMS is the linear map of the home angle clamped into
\* [minBr, maxBr] and lies within [minMS, maxMS]; home() writes homeMS to
\* the servo and leaves current = target = homeMS, from any state.
C9_Home ==
    /\ [](LET h == IF cal.home < minBr THEN minBr
                   ELSE IF cal.home > maxBr THEN maxBr ELSE cal.home
          IN  /\ homeMS = minMS + ((h - minBr) * (maxMS - minMS)) \div (maxBr - minBr)
              /\ InRange(homeMS))
    /\ [][Home => /\ servoUs' = homeMS /\ writes' = 1
                  /\ current' = homeMS /\ target' = homeMS]_vars

C9_Witness ==
    /\ homed /\ targeted = "afterHome" /\ writes = 1
    /\ current = homeMS /\ target = homeMS /\ servoUs = homeMS
    /\ ret # homeMS /\ startAngle # homeMS

\* C10: setTarget() leaves current and previousMillis unchanged and writes
\* nothing to the servo; current changes only in home() and update().
C10_SetTargetFrame ==
    [][/\ SetTargetStep => UNCHANGED <<current, previousMillis, servoUs>> /\ writes' = 0
       /\ current' # current => Home \/ UpdateStep]_vars

C10_Witness ==
    /\ homed /\ targeted = "afterHome" /\ writes = 0
    /\ current = homeMS /\ startAngle = current /\ target # current
    /\ servoUs = homeMS /\ ret = target

Min(a, b) == IF a <= b THEN a ELSE b

Max(a, b) == IF a >= b THEN a ELSE b

\* an update() call that moved the servo
EffectiveStep == UpdateStep /\ current' # current

\* C11: after init() with min < max the stored thresholds satisfy
\* rampDown < rampUp in every reachable state.
C11_RampOrder == (minMS < maxMS) => rampDown < rampUp

\* C12: while current # target an update() whose elapsed time
\* now - previousMillis is not greater than interval changes nothing and
\* writes nothing; a step is taken only when more than the interval in
\* force has elapsed since previousMillis, which the step then sets to now.
C12_RateLimit ==
    [][UpdateStep =>
        /\ (current # target /\ (now' - previousMillis) % MillisMod <= interval) =>
              /\ UNCHANGED <<current, interval, previousMillis, target, startAngle, servoUs>>
              /\ writes' = 0
        /\ current' # current =>
              /\ (now' - previousMillis) % MillisMod > interval
              /\ previousMillis' = now']_vars

C12_Witness ==
    /\ homed /\ targeted = "afterHome" /\ current # target /\ current # startAngle
    /\ writes = 0 /\ now # previousMillis /\ elapsed(now) <= interval

C14_PhaseSelection ==
    [][EffectiveStep =>
        interval' = (LET remaining == Dist(current, target)
                     IN  IF remaining < rampDown THEN Min(interval + 1, startInterval)
                         ELSE IF remaining > rampUp THEN Max(interval - 1, minInterval)
                         ELSE interval)]_vars

\* C15: after init() with min < max, rampUp = (max - min) / 3 and
\* rampDown = (max - min) / 9 for every calibration range.
C15_Thresholds ==
    (minMS < maxMS) =>
        /\ rampUp = (maxMS - minMS) \div 3
        /\ rampDown = (maxMS - minMS) \div 9

\* C16: the gate is wraparound safe.  As long as less than one full period
\* of the millis() counter has really elapsed since the last step, an
\* update() with current # target takes a step exactly when the time really
\* elapsed exceeds interval, also when the counter has overflowed since that
\* step: a ramp in progress neither stalls nor steps early.
C16_WrapSafeGate ==
    [][\A d \in Deltas :
          (Update(d) /\ current # target /\ sinceStep + d < MillisMod) =>
              ((current' # current) <=> (sinceStep + d > interval))]_vars

C16_Witness ==
    /\ homed /\ targeted = "afterHome" /\ current # target /\ current # startAngle
    /\ now < previousMillis /\ sinceStep < MillisMod /\ sinceStep > 0
    /\ interval >= minInterval /\ writes = 0

\* C17: on a move whose distance when setTarget() was called is not greater
\* than rampUp, no step decreases interval; a step decreases interval only
\* when the remaining distance exceeds rampUp and increases it only when the
\* remaining distance is below rampDown, whatever startAngle is.
C17_RemainingOnly ==
    [][EffectiveStep =>
        /\ Dist(startAngle, target) <= rampUp => interval' >= interval
        /\ interval' < interval => Dist(current, target) > rampUp
        /\ interval' > interval => Dist(current, target) < rampDown]_vars

C17_Witness ==
    /\ homed /\ targeted = "afterHome" /\ writes = 1 /\ current # startAngle
    /\ Dist(startAngle, target) <= rampUp /\ target < startAngle
    /\ startInterval > minInterval /\ interval = startInterval

\* C18: the servo is written exactly once by home() and by every effective
\* step of update() and by nothing else, and after the first home() the
\* pulse width last written equals current.
C18_ActuatorTracking ==
    /\ [](homed => servoUs = current)
    /\ [][/\ Home => writes' = 1 /\ servoUs' = current'
          /\ EffectiveStep => writes' = 1 /\ servoUs' = current'
          /\ (UpdateStep /\ current' = current) => writes' = 0 /\ servoUs' = servoUs
          /\ SetTargetStep => writes' = 0 /\ servoUs' = servoUs]_vars

C18_Witness ==
    /\ homed /\ writes = 1 /\ servoUs = current
    /\ current # homeMS /\ current # target /\ Dist(current, startAngle) = 1

====
